---- MODULE Spec2Model ----
(***************************************************************************)
(* A model of vsicd, the vsic chat server (cmd/vsicd/main.go) and of the   *)
(* line transport it uses (libvsic/libvsic.go).                            *)
(*                                                                         *)
(* One handler goroutine (Server.handle) and one writer goroutine          *)
(* (Server.writeLoop) per accepted connection, the shutdown goroutine of   *)
(* start(), and the main goroutine's accept loop.  Strings are sequences   *)
(* of one-character strings, so that concatenation, trimming and parsing   *)
(* are computed the way the Go code computes them.                         *)
(***************************************************************************)
EXTENDS Integers, Sequences, FiniteSets, TLC

\* ------------------------------------------------------------------ bounds

\* Connections the listener hands out in one run (each handled once).
NumConns == 2
\* MSG lines the peers send in one run, over all clients: while a signal may
\* arrive (Spec), and while the clock runs (SpecChat).
MaxMsgs == 1
MaxChat == 2
\* PING lines one client gets answered in one run.
MaxPings == 1
\* Capacity of Client.Send.  The source makes it 16 (main.go:208); the model
\* scales it down so that a queue holds as many lines as a run broadcasts.
SendCap == 2

\* ----------------------------------------------------------- configuration

\* Config.MaxConnsPerIP, Config.MaxMsgsPerSec, Config.MaxMsgSize as resolved by
\* loadConfig (positive).
MaxConnsPerIP == 1
MaxMsgsPerSec == 3
MaxMsgSize == 32

\* time.Second, in nanoseconds.
Second == 1000000000

\* ----------------------------------------------------------------- strings

Max(a, b) == IF a > b THEN a ELSE b
Min(a, b) == IF a < b THEN a ELSE b

Lower == {"a","b","c","d","e","f","g","h","i","j","k","l","m",
          "n","o","p","q","r","s","t","u","v","w","x","y","z"}
Upper == {"A","B","C","D","E","F","G","H","I","J","K","L","M",
          "N","O","P","Q","R","S","T","U","V","W","X","Y","Z"}
Digit == {"0","1","2","3","4","5","6","7","8","9"}

\* A string is a sequence of bytes.  A byte TLA+ cannot write in a string
\* is the token that names it.
vt == "\\v"
xC2 == "\\xC2"
x85 == "\\x85"
xA0 == "\\xA0"
xE1 == "\\xE1"
x9A == "\\x9A"
x00 == "\\x00"
x80 == "\\x80"
xE2 == "\\xE2"
x81 == "\\x81"
x9F == "\\x9F"
xE3 == "\\xE3"

\* The one-byte characters unicode.IsSpace accepts.
Space == {" ", "\t", "\n", vt, "\f", "\r"}

\* The UTF-8 encodings of the other characters unicode.IsSpace accepts:
\* U+0085, U+00A0, U+1680, U+2000..U+200A, U+2028, U+2029, U+202F, U+205F,
\* U+3000.
SpaceRunes ==
  {<<xC2, x85>>, <<xC2, xA0>>, <<xE1, x9A, x80>>, <<xE2, x81, x9F>>,
   <<xE3, x80, x80>>}
  \cup {<<xE2, x80, b>> :
          b \in {x80, x81, "\\x82", "\\x83", "\\x84", x85, "\\x86", "\\x87",
                 "\\x88", "\\x89", "\\x8A", "\\xA8", "\\xA9", "\\xAF"}}

sHELLO == <<"H","E","L","L","O">>
sMOTD == <<"M","O","T","D">>
sMSG == <<"M","S","G">>
sPING == <<"P","I","N","G">>
sPONG == <<"P","O","N","G">>
sBYE == <<"B","Y","E">>
sCYA == <<"C","Y","A">>
sERROR100 == <<"E","R","R","O","R"," ","1","0","0">>
sNOPE == <<"N","O","P","E">>
sp == <<" ">>
nl == <<"\n">>
cr == <<"\r">>

\* strings.IndexByte(s, ch), 1-based; 0 when ch is not in s.
IndexByte(s, ch) ==
  IF \E i \in 1..Len(s) : s[i] = ch
  THEN CHOOSE i \in 1..Len(s) : s[i] = ch /\ \A j \in 1..(i-1) : s[j] # ch
  ELSE 0

\* strings.ContainsAny(s, chars)
ContainsAny(s, chars) == \E i \in 1..Len(s) : s[i] \in chars

\* strings.TrimRight(s, cutset)
RECURSIVE TrimRight(_, _)
TrimRight(s, cutset) ==
  IF Len(s) > 0 /\ s[Len(s)] \in cutset
  THEN TrimRight(SubSeq(s, 1, Len(s) - 1), cutset)
  ELSE s

HasPrefix(s, p) == Len(s) >= Len(p) /\ SubSeq(s, 1, Len(p)) = p
HasSuffix(s, p) ==
  Len(s) >= Len(p) /\ SubSeq(s, Len(s) - Len(p) + 1, Len(s)) = p

\* strings.TrimLeftFunc(s, unicode.IsSpace)
RECURSIVE TrimLeftSpace(_)
TrimLeftSpace(s) ==
  IF Len(s) > 0 /\ s[1] \in Space THEN TrimLeftSpace(Tail(s))
  ELSE IF \E r \in SpaceRunes : HasPrefix(s, r)
  THEN LET r == CHOOSE q \in SpaceRunes : HasPrefix(s, q)
       IN TrimLeftSpace(SubSeq(s, Len(r) + 1, Len(s)))
  ELSE s

\* strings.TrimRightFunc(s, unicode.IsSpace)
RECURSIVE TrimRightSpace(_)
TrimRightSpace(s) ==
  IF Len(s) > 0 /\ s[Len(s)] \in Space
  THEN TrimRightSpace(SubSeq(s, 1, Len(s) - 1))
  ELSE IF \E r \in SpaceRunes : HasSuffix(s, r)
  THEN LET r == CHOOSE q \in SpaceRunes : HasSuffix(s, q)
       IN TrimRightSpace(SubSeq(s, 1, Len(s) - Len(r)))
  ELSE s

\* strings.TrimSpace(s)
TrimSpace(s) == TrimRightSpace(TrimLeftSpace(s))

\* ---------------------------------------------------------------- libvsic

\* Conn.ReadLine on the bytes the peer has sent for its next line: raw is the
\* bytes up to and including the first newline, or bytes with no newline when
\* the stream ends (or the deadline passes) before one arrives.
ReadLine(raw) ==
  IF IndexByte(raw, "\n") = 0 THEN [err |-> "io", line |-> <<>>]
  ELSE IF Len(raw) > MaxMsgSize THEN [err |-> "message too big", line |-> <<>>]
  ELSE LET line == TrimRight(raw, {"\r", "\n"})
       IN IF ContainsAny(line, {"\n"}) \/ ContainsAny(line, {"\r"})
          THEN [err |-> "invalid control chars", line |-> <<>>]
          ELSE [err |-> "", line |-> line]

\* The checks of Conn.WriteLine that do not depend on the stream:
\* "" when s may be written, the error otherwise.
WriteLineErr(s) ==
  IF Len(s) > MaxMsgSize THEN "message too big"
  ELSE IF ContainsAny(s, {"\n", "\r"}) THEN "invalid control chars"
  ELSE ""

\* ParseCommand(line)
ParseCommand(line) ==
  LET i == IndexByte(line, " ")
  IN IF i # 0
     THEN [cmd |-> SubSeq(line, 1, i - 1),
           arg |-> TrimSpace(SubSeq(line, i + 1, Len(line)))]
     ELSE [cmd |-> line, arg |-> <<>>]

\* ValidNick without the test of the length.
ValidNickAnyLength(n) ==
  \A i \in 1..Len(n) : n[i] \in Lower \cup Upper \cup Digit \cup {"_"}

\* ValidNick(n)
ValidNick(n) ==
  /\ ~(Len(n) < 3 \/ Len(n) > 20)
  /\ \A i \in 1..Len(n) : n[i] \in Lower \cup Upper \cup Digit \cup {"_"}

\* itoa(n): time.Unix(n, 0).UTC().Format("0000") with the prefix "1970"
\* trimmed.  The layout "0000" holds no reference-time element (a "0" starts
\* one only before 1..6 or as "002"), so Format returns the layout itself
\* whatever n is, and "0000" does not start with "1970".
itoa(n) == <<"0","0","0","0">>

\* pad4(n)
pad4(n) ==
  IF n < 10 THEN <<"0","0","0">> \o itoa(n)
  ELSE IF n < 100 THEN <<"0","0">> \o itoa(n)
  ELSE IF n < 1000 THEN <<"0">> \o itoa(n)
  ELSE itoa(n)

\* RandomSuffix() for the two random bytes read as the big-endian number u.
RandomSuffix(u) == <<"_">> \o pad4(u % 10000)

\* strings.Split(s, sep) for a one-character separator.
RECURSIVE Split(_, _)
Split(s, ch) ==
  LET i == IndexByte(s, ch)
  IN IF i = 0 THEN <<s>>
     ELSE <<SubSeq(s, 1, i - 1)>> \o Split(SubSeq(s, i + 1, Len(s)), ch)

\* ------------------------------------------------------------------ inputs

Conns == 1..NumConns

\* strings.Split(nc.RemoteAddr().String(), ":")[0] of the peers, in the order
\* in which the addresses first connect.
IPs == <<"10.0.0.1", "10.0.0.2">>
Addrs == {IPs[i] : i \in 1..Len(IPs)}

\* Config.Motd
Motd == <<"\n", "y", "o", "\n">>

nBob == <<"b","o","b">>
tHi == <<"h","i">>

\* What a peer may send as its first line.  <<>> is a stream that ends, or
\* stays silent past the read deadline, before a newline arrives.
RawHello ==
  { sHELLO \o sp \o nBob \o nl,
    sHELLO \o sp \o nBob \o <<"_","0","0","0","0">> \o cr \o nl,
    sHELLO \o sp \o <<"\f">> \o nBob \o <<vt, xC2, xA0>> \o nl,
    sHELLO \o sp \o <<"a","l">> \o nl,
    sHELLO \o sp \o <<"b","!","b">> \o nl,
    sHELLO \o nl,
    sPING \o nl,
    sMSG \o sp \o tHi \o nl,
    sHELLO \o sp \o <<"b","\r","b">> \o nl,
    sHELLO \o sp \o [i \in 1..21 |-> "x"] \o nl,
    sHELLO \o sp \o [i \in 1..(MaxMsgSize - 6) |-> "x"] \o nl,
    <<>> }

\* First lines of peers that all ask for the same nickname, or for none.
ChatHello == {sHELLO \o sp \o nBob \o nl, sHELLO \o nl}

\* What a peer may send once registered, in the runs that end with a
\* shutdown: a message, a command the server ignores, and the end of the
\* stream.
RawActive ==
  { sMSG \o sp \o sp \o tHi \o sp \o cr \o nl,
    sNOPE \o nl,
    <<>> }

\* Lines of peers that chat until their stream ends.
ChatLines ==
  { sMSG \o sp \o sp \o tHi \o sp \o cr \o nl,
    <<>> }

\* Values of binary.BigEndian.Uint16(b[:]) the model draws, one for each
\* branch of pad4.
RandReads == {7, 42, 512, 65535}

\* Instants at which the clock is read, in nanoseconds after the first.
Interval == Second \div Max(1, MaxMsgsPerSec)
Instants == {0, Interval - 1, Interval}

\* The zero time.Time of a Client that has had no message accepted.
ZeroTime == -1

\* ------------------------------------------------------------------- state

VARIABLES
  proc,       \* "running", "exited" (os.Exit or main returned), "panicked"
  ln,         \* the listener: "open" or "closed"
  sd,         \* the shutdown goroutine: "wait", "closing", "locked", "exiting"
  now,        \* the clock
  clients,    \* Server.clients: nickname -> connection
  ipCounts,   \* Server.ipCounts
  totalMsg,   \* Server.totalMsg
  pc,         \* position of each connection's handler
  ip,         \* Client.IP
  connNick,   \* Conn.Nick
  Send,       \* Client.Send: the lines buffered in the channel
  LastMsg,    \* Client.LastMsg
  wl,         \* the writer goroutine: "none", "run", "done"
  wr,         \* the line the writer goroutine is writing, if any
  out,        \* the lines written to the transport, in order
  bcMsg,      \* broadcast's msg
  bcTodo,     \* keys broadcast's range has still to visit
  bcTmp,      \* the value of totalMsg read by s.totalMsg++
  td,         \* how often each teardown effect has run, per connection
  said,       \* MSG lines read so far, over all connections
  activeAtSig, \* the connections that were Active when the signal arrived
  rt,         \* a line handed to Conn.WriteLine and read back by Conn.ReadLine
  W,          \* Conn.W, the bufio.Writer: its buffer, its count n and its error
  wth,        \* where the handler (h) and the writer goroutine (w) are in WriteLine
  part,       \* the bytes the transport got after the last newline
  motd,       \* the lines of the MOTD the handshake has still to write
  closeTodo   \* keys the range of the shutdown goroutine has still to visit

vars == <<proc, ln, sd, now, clients, ipCounts, totalMsg, pc, ip, connNick,
          Send, LastMsg, wl, wr, out, bcMsg, bcTodo, bcTmp, td, said,
          activeAtSig, rt, W, wth, part, motd, closeTodo>>

\* A line with the connection and sequence number of the MSG it relays
\* (src = 0 for a line the server itself originates).
Entry(line, src, seq) == [line |-> line, src |-> src, seq |-> seq]
NoEntry == Entry(<<>>, 0, 0)

NoTeardown == [conn |-> 0, chan |-> 0, del |-> 0, rel |-> 0]

\* No line is being taken through the transport on its own.
NoRt == [st |-> "off", x |-> <<>>, werr |-> "", wire |-> <<>>,
         rerr |-> "", back |-> <<>>]

\* ----------------------------------------------------------------- Conn.W

\* One byte given to Conn.W, with the src and seq of the line it belongs to.
Byte(ch, src, seq) == [ch |-> ch, src |-> src, seq |-> seq]
\* A byte of the buffer nothing has been copied to.
ZeroByte == Byte(x00, 0, 0)

\* s + "\n", the argument of c.W.WriteString, for the line of e.
Bytes(e) ==
  [i \in 1..(Len(e.line) + 1) |->
     Byte(IF i <= Len(e.line) THEN e.line[i] ELSE "\n", e.src, e.seq)]

\* bufio.NewWriter(c): buf is b.buf as far as it has been copied to, the
\* rest of its 4096 bytes being zero; n is b.n and err is b.err.
NewWriter == [buf |-> <<>>, n |-> 0, err |-> ""]

\* b.buf[0:n].
Slice(buf, n) == [i \in 1..n |-> IF i <= Len(buf) THEN buf[i] ELSE ZeroByte]

\* copy(b.buf[k:], s): the buffer afterwards.
Overlay(buf, k, s) ==
  [i \in 1..(IF Len(buf) > k + Len(s) THEN Len(buf) ELSE k + Len(s)) |->
     IF i > k /\ i <= k + Len(s) THEN s[i - k]
     ELSE IF i <= Len(buf) THEN buf[i] ELSE ZeroByte]

\* copy(b.buf[0:m-n], b.buf[n:m]): the buffer afterwards.
ShiftDown(buf, n, m) ==
  Overlay(buf, 0, [i \in 1..(m - n) |-> Slice(buf, m)[n + i]])

\* A goroutine that is not inside WriteLine.  Inside, pc is the statement
\* it executes next, n and err are what b.wr.Write returned to Flush, and ld
\* is the value of b.n it has loaded for the store that follows.
Idle == [pc |-> "idle", n |-> 0, err |-> "", ld |-> 0]
\* WriteLine has made its two tests and calls c.W.WriteString.
Begin == [pc |-> "wsErr", n |-> 0, err |-> "", ld |-> 0]

Stmt(b, t, sent, panic) == [b |-> b, t |-> t, sent |-> sent, panic |-> panic]

\* One statement of c.W.WriteString(s) and c.W.Flush() by a goroutine at t,
\* Conn.W being b and s fitting into the buffer (len(s) <= b.Available(), so
\* that the loop of WriteString is not entered): Conn.W and the goroutine
\* afterwards, the bytes given to the transport, and whether the statement
\* panics (a slice of b.buf with a bound below zero or out of order).  Conn.W
\* has no lock, so b.n += n and b.n -= n are each a load of b.n and a store
\* that another goroutine's statements may come between; copy moves its
\* bytes as one block.
\*   wsErr      if b.err != nil { return nn, b.err }
\*   copy       n := copy(b.buf[b.n:], s)
\*   incLoad    b.n += n: the load of b.n
\*   incStore   b.n += n: the store of the sum
\*   flErr      if b.err != nil { return b.err }
\*   flZero     if b.n == 0 { return nil }
\*   write      n, err := b.wr.Write(b.buf[0:b.n])
\*   cmp        if n < b.n && err == nil { err = io.ErrShortWrite }
\*   shiftTest  if n > 0 && n < b.n
\*   shift      copy(b.buf[0:b.n-n], b.buf[n:b.n])
\*   decLoad    b.n -= n: the load of b.n
\*   decStore   b.n -= n: the store of the difference
\*   setErr     b.err = err; return err
\*   reset      b.n = 0; return nil
WStmt(b, t, s, closed) ==
  CASE t.pc = "wsErr" ->
         Stmt(b, IF b.err # "" THEN Idle ELSE [t EXCEPT !.pc = "copy"], <<>>, FALSE)
    [] t.pc = "copy" ->
         IF b.n < 0 THEN Stmt(b, t, <<>>, TRUE)
         ELSE Stmt([b EXCEPT !.buf = Overlay(@, b.n, s)],
                   [t EXCEPT !.pc = "incLoad"], <<>>, FALSE)
    [] t.pc = "incLoad" ->
         Stmt(b, [t EXCEPT !.pc = "incStore", !.ld = b.n], <<>>, FALSE)
    [] t.pc = "incStore" ->
         Stmt([b EXCEPT !.n = t.ld + Len(s)],
              [t EXCEPT !.pc = "flErr", !.ld = 0], <<>>, FALSE)
    [] t.pc = "flErr" ->
         Stmt(b, IF b.err # "" THEN Idle ELSE [t EXCEPT !.pc = "flZero"], <<>>, FALSE)
    [] t.pc = "flZero" ->
         Stmt(b, IF b.n = 0 THEN Idle ELSE [t EXCEPT !.pc = "write"], <<>>, FALSE)
    [] t.pc = "write" ->
         IF b.n < 0 THEN Stmt(b, t, <<>>, TRUE)
         ELSE IF closed
         THEN Stmt(b, [t EXCEPT !.pc = "cmp", !.n = 0, !.err = "closed"], <<>>, FALSE)
         ELSE Stmt(b, [t EXCEPT !.pc = "cmp", !.n = b.n, !.err = ""],
                   Slice(b.buf, b.n), FALSE)
    [] t.pc = "cmp" ->
         LET err == IF t.n < b.n /\ t.err = "" THEN "short" ELSE t.err
         IN Stmt(b, IF err # "" THEN [t EXCEPT !.pc = "shiftTest", !.err = err]
                    ELSE [t EXCEPT !.pc = "reset"], <<>>, FALSE)
    [] t.pc = "shiftTest" ->
         Stmt(b, [t EXCEPT !.pc = IF t.n > 0 /\ t.n < b.n THEN "shift" ELSE "decLoad"],
              <<>>, FALSE)
    [] t.pc = "shift" ->
         IF b.n < t.n THEN Stmt(b, t, <<>>, TRUE)
         ELSE Stmt([b EXCEPT !.buf = ShiftDown(@, t.n, b.n)],
                   [t EXCEPT !.pc = "decLoad"], <<>>, FALSE)
    [] t.pc = "decLoad" ->
         Stmt(b, [t EXCEPT !.pc = "decStore", !.ld = b.n], <<>>, FALSE)
    [] t.pc = "decStore" ->
         Stmt([b EXCEPT !.n = t.ld - t.n],
              [t EXCEPT !.pc = "setErr", !.ld = 0], <<>>, FALSE)
    [] t.pc = "setErr" ->
         Stmt([b EXCEPT !.err = t.err], Idle, <<>>, FALSE)
    [] t.pc = "reset" ->
         Stmt([b EXCEPT !.n = 0], Idle, <<>>, FALSE)

\* The line the bytes of p make.
LineOf(p) ==
  Entry([i \in 1..Len(p) |-> p[i].ch],
        IF p = <<>> THEN 0 ELSE p[1].src, IF p = <<>> THEN 0 ELSE p[1].seq)

\* The transport gets the bytes bs, having the lines o and the bytes p after
\* them: the lines it has, and the bytes after the last newline.
RECURSIVE Feed(_, _, _)
Feed(o, p, bs) ==
  IF bs = <<>> THEN [out |-> o, part |-> p]
  ELSE IF Head(bs).ch = "\n" THEN Feed(Append(o, LineOf(p)), <<>>, Tail(bs))
  ELSE Feed(o, Append(p, Head(bs)), Tail(bs))

\* The write side of connection c: Conn.W and what the transport has got.
Side(c) == [W |-> W[c], out |-> out[c], part |-> part[c]]

\* Conn.WriteLine(s) from its call to its return, no other goroutine being
\* inside WriteString or Flush of Conn.W: the write side after it.  A line
\* refused, or an error held by Conn.W, leaves all as it is; otherwise s and
\* the newline are copied to b.buf[b.n:] and Flush gives b.buf[0:b.n] to the
\* transport and sets b.n to 0, or, the transport closed, keeps the error.
WriteLine(x, closed, e) ==
  IF WriteLineErr(e.line) # "" \/ x.W.err # "" THEN x
  ELSE LET buf == Overlay(x.W.buf, x.W.n, Bytes(e))
           n == x.W.n + Len(e.line) + 1
           f == Feed(x.out, x.part, Slice(buf, n))
       IN IF closed
          THEN [x EXCEPT !.W = [buf |-> buf, n |-> n, err |-> "closed"]]
          ELSE [W |-> [buf |-> buf, n |-> 0, err |-> ""],
                out |-> f.out, part |-> f.part]

\* The server after newServer and start, before any connection.
Start ==
  /\ proc = "running"
  /\ ln = "open"
  /\ sd = "wait"
  /\ now = 0
  /\ clients = [n \in {} |-> 0]
  /\ ipCounts = [a \in Addrs |-> 0]
  /\ totalMsg = 0
  /\ pc = [c \in Conns |-> "Idle"]
  /\ ip = [c \in Conns |-> ""]
  /\ connNick = [c \in Conns |-> <<>>]
  /\ Send = [c \in Conns |-> <<>>]
  /\ LastMsg = [c \in Conns |-> ZeroTime]
  /\ wl = [c \in Conns |-> "none"]
  /\ wr = [c \in Conns |-> NoEntry]
  /\ out = [c \in Conns |-> <<>>]
  /\ bcMsg = [c \in Conns |-> NoEntry]
  /\ bcTodo = [c \in Conns |-> {}]
  /\ bcTmp = [c \in Conns |-> 0]
  /\ td = [c \in Conns |-> NoTeardown]
  /\ said = 0
  /\ activeAtSig = {}
  /\ W = [c \in Conns |-> NewWriter]
  /\ wth = [c \in Conns |-> [h |-> Idle, w |-> Idle]]
  /\ part = [c \in Conns |-> <<>>]
  /\ motd = [c \in Conns |-> <<>>]
  /\ closeTodo = {}

Init == Start /\ rt = NoRt

\* ---------------------------------------------------------------- helpers

\* The transport has been closed (Conn.Close has run at least once).
ConnClosed(c) == td[c].conn > 0
\* close(c.Send) has run.
SendClosed(c) == td[c].chan > 0

\* The addresses that have connected so far.
Seen == {ip[c] : c \in {d \in Conns : pc[d] # "Idle"}}

\* Handlers holding s.mu.RLock (inside broadcast).  The sections under
\* s.mu.Lock are single steps, so a writer excludes everything by itself and
\* has only to wait for the readers.
Readers == {c \in Conns : pc[c] \in {"Bcast", "BcastInc"}}

\* s.mu.Lock() returns: nobody reads, and the shutdown goroutine, which
\* keeps the lock over its whole range, does not hold it.
CanLock == Readers = {} /\ sd # "locked"
\* s.mu.RLock() returns.
CanRLock == sd # "locked"

\* The handler is in the Active state: registered, teardown not begun.
ActivePcs == {"Active", "BcastLock", "Bcast", "BcastInc", "Pong", "Cya"}

\* Map operations on Server.clients.
Has(reg, n) == n \in DOMAIN reg
Put(reg, n, c) == [k \in (DOMAIN reg) \cup {n} |-> IF k = n THEN c ELSE reg[k]]
Del(reg, n) == [k \in (DOMAIN reg) \ {n} |-> reg[k]]
Registered == {clients[n] : n \in DOMAIN clients}

\* uniqueNick that appends the suffix whether the nickname is taken or not.
uniqueNickAlwaysSuffix(reg, n, u) == n \o RandomSuffix(u)

\* Server.uniqueNick(n), RandomSuffix reading u.
uniqueNick(reg, n, u) == IF ~Has(reg, n) THEN n ELSE n \o RandomSuffix(u)

\* The "MOTD " lines of the handshake, in order.
RECURSIVE MotdLines(_)
MotdLines(ls) ==
  IF ls = <<>> THEN <<>>
  ELSE (IF Head(ls) # <<>> THEN <<sMOTD \o sp \o Head(ls)>> ELSE <<>>)
       \o MotdLines(Tail(ls))

\* The PONG lines among those written.
Pongs(o) == Cardinality({i \in 1..Len(o) : o[i].line = sPONG})

\* Throttled with <= for <.
ThrottledInclusive(t) == t # ZeroTime /\ now - t <= Interval

\* time.Since(t) < time.Second/time.Duration(max(1, s.cfg.MaxMsgsPerSec)).
\* time.Since of the zero Time saturates at the largest Duration.
Throttled(t) == t # ZeroTime /\ now - t < Interval

\* ----------------------------------------------------------------- actions

\* start(): ln.Accept() returns connection c from address a; go s.handle(conn).
Accept(c, a) ==
  /\ proc = "running" /\ ln = "open"
  /\ pc[c] = "Idle"
  /\ \A d \in Conns : d < c => pc[d] # "Idle"
  /\ a \in Seen \cup {IPs[Min(Cardinality(Seen) + 1, Len(IPs))]}
  /\ pc' = [pc EXCEPT ![c] = "Connecting"]
  /\ ip' = [ip EXCEPT ![c] = a]
  /\ UNCHANGED <<proc, ln, sd, now, clients, ipCounts, totalMsg, connNick, Send,
                 LastMsg, wl, wr, out, bcMsg, bcTodo, bcTmp, td, said,
                 activeAtSig, rt, W, wth,
                 part,
                 motd, closeTodo>>

\* SlotFree without a limit.
SlotFreeAlways(n) == TRUE

\* SlotFree with the comparison off by one.
SlotFreeOffByOne(n) == ~(n > MaxConnsPerIP)

\* The limit test of handle: the address may take one more connection.
SlotFree(n) == ~(n >= MaxConnsPerIP)

\* handle, under s.mu.Lock: refuse the connection when its address is at the
\* limit, reserve a slot otherwise; then wrap the connection, make the Client
\* and start its writer.
Reserve(c) ==
  /\ proc = "running"
  /\ pc[c] = "Connecting"
  /\ CanLock
  /\ IF SlotFree(ipCounts[ip[c]])
     THEN /\ ipCounts' = [ipCounts EXCEPT ![ip[c]] = @ + 1]
          /\ pc' = [pc EXCEPT ![c] = "AwaitHello"]
          /\ wl' = [wl EXCEPT ![c] = "run"]
          /\ td' = td
     ELSE /\ td' = [td EXCEPT ![c].conn = @ + 1]
          /\ pc' = [pc EXCEPT ![c] = "Rejected"]
          /\ UNCHANGED <<ipCounts, wl>>
  /\ UNCHANGED <<proc, ln, sd, now, clients, totalMsg, ip, connNick, Send,
                 LastMsg, wr, out, bcMsg, bcTodo, bcTmp, said, activeAtSig, rt, W, wth,
                 part,
                 motd, closeTodo>>

\* What ReadLine can return on connection c when the peer has sent raw.  On
\* a closed transport the read fails, unless the line is in Conn.R's buffer
\* already (or ReadLine returned it before the Close): then the handler gets
\* it as from an open one.
Reads(c, raw) ==
  {ReadLine(raw)}
  \cup (IF ConnClosed(c) THEN {[err |-> "closed", line |-> <<>>]} ELSE {})

\* The write side of connection c becomes x.
Written(c, x) ==
  /\ W' = [W EXCEPT ![c] = x.W]
  /\ out' = [out EXCEPT ![c] = x.out]
  /\ part' = [part EXCEPT ![c] = x.part]

\* handle: the first line.  A read error goes to disconnect; a line that is
\* not HELLO with a valid nickname goes on to be answered ERROR 100;
\* otherwise the nickname is made unique (under s.mu.RLock) and stored in
\* Conn.Nick.  The read, the parse and the test touch nothing another
\* goroutine can see, so they are one step with the locked section of
\* uniqueNick.  In the writes that follow, up to the insertion, WriteLine
\* runs from its call to its return: the writer goroutine has no line to
\* write before the client is in the registry.
Hello(c, raw, u) ==
  /\ proc = "running"
  /\ pc[c] = "AwaitHello"
  /\ \E r \in Reads(c, raw) :
     LET p == ParseCommand(r.line)
     IN IF r.err # ""
        THEN /\ pc' = [pc EXCEPT ![c] = "Disc1"]
             /\ UNCHANGED connNick
        ELSE IF p.cmd # sHELLO \/ ~ValidNick(p.arg)
        THEN /\ pc' = [pc EXCEPT ![c] = "Refuse"]
             /\ UNCHANGED connNick
        ELSE /\ CanRLock
             /\ connNick' = [connNick EXCEPT ![c] = uniqueNick(clients, p.arg, u)]
             /\ pc' = [pc EXCEPT ![c] = "Ack"]
  /\ UNCHANGED <<proc, ln, sd, now, clients, ipCounts, totalMsg, ip, Send,
                 LastMsg, wl, wr, out, bcMsg, bcTodo, bcTmp, td, said,
                 activeAtSig, rt, W, wth, part, motd, closeTodo>>

\* The line the handler of c writes at "Refuse", "Ack" or "Motd".
HelloLine(c) ==
  Entry(IF pc[c] = "Refuse" THEN sERROR100
        ELSE IF pc[c] = "Ack" THEN sHELLO \o sp \o connNick[c]
        ELSE Head(motd[c]), 0, 0)

\* handle, WriteLine having returned at "Refuse", "Ack" or "Motd" (its error
\* is dropped): after ERROR 100 comes disconnect; after HELLO the test of
\* s.cfg.Motd and the split of it, the loop having its non-empty lines to
\* write; after a MOTD line the next one; after the last, the insertion.
HelloNext(c) ==
  LET ls == IF pc[c] = "Motd" THEN Tail(motd[c])
            ELSE IF pc[c] = "Ack" /\ Motd # <<>> THEN MotdLines(Split(Motd, "\n"))
            ELSE <<>>
  IN /\ motd' = [motd EXCEPT ![c] = ls]
     /\ pc' = [pc EXCEPT ![c] = IF pc[c] = "Refuse" THEN "Disc1"
                                ELSE IF ls = <<>> THEN "Insert" ELSE "Motd"]

\* handle: vconn.WriteLine("ERROR 100"), then disconnect.
HelloRefuse(c) ==
  /\ proc = "running"
  /\ pc[c] = "Refuse"
  /\ wth[c].h.pc = "idle"
  /\ Written(c, WriteLine(Side(c), ConnClosed(c), HelloLine(c)))
  /\ HelloNext(c)
  /\ UNCHANGED <<proc, ln, sd, now, clients, ipCounts, totalMsg, ip, connNick,
                 Send, LastMsg, wl, wr, bcMsg, bcTodo, bcTmp, td, said,
                 activeAtSig, rt, wth, closeTodo>>

\* HelloAck that also stores the client in the registry.
HelloAckInserts(c) ==
  /\ proc = "running"
  /\ pc[c] = "Ack"
  /\ wth[c].h.pc = "idle"
  /\ CanLock
  /\ Written(c, WriteLine(Side(c), ConnClosed(c), HelloLine(c)))
  /\ HelloNext(c)
  /\ clients' = Put(clients, connNick[c], c)
  /\ UNCHANGED <<proc, ln, sd, now, ipCounts, totalMsg, ip, connNick,
                 Send, LastMsg, wl, wr, bcMsg, bcTodo, bcTmp, td, said,
                 activeAtSig, rt, wth, closeTodo>>

\* handle: client.Conn.WriteLine("HELLO " + nick).
HelloAck(c) ==
  /\ proc = "running"
  /\ pc[c] = "Ack"
  /\ wth[c].h.pc = "idle"
  /\ Written(c, WriteLine(Side(c), ConnClosed(c), HelloLine(c)))
  /\ HelloNext(c)
  /\ UNCHANGED <<proc, ln, sd, now, clients, ipCounts, totalMsg, ip, connNick,
                 Send, LastMsg, wl, wr, bcMsg, bcTodo, bcTmp, td, said,
                 activeAtSig, rt, wth, closeTodo>>

\* handle: one turn of the MOTD loop, client.Conn.WriteLine("MOTD " + line)
\* for the next non-empty line.
MotdLine(c) ==
  /\ proc = "running"
  /\ pc[c] = "Motd"
  /\ wth[c].h.pc = "idle"
  /\ Written(c, WriteLine(Side(c), ConnClosed(c), HelloLine(c)))
  /\ HelloNext(c)
  /\ UNCHANGED <<proc, ln, sd, now, clients, ipCounts, totalMsg, ip, connNick,
                 Send, LastMsg, wl, wr, bcMsg, bcTodo, bcTmp, td, said,
                 activeAtSig, rt, wth, closeTodo>>

\* handle, under s.mu.Lock: s.clients[nick] = client.
Insert(c) ==
  /\ proc = "running"
  /\ pc[c] = "Insert"
  /\ CanLock
  /\ clients' = Put(clients, connNick[c], c)
  /\ pc' = [pc EXCEPT ![c] = "Active"]
  /\ UNCHANGED <<proc, ln, sd, now, ipCounts, totalMsg, ip, connNick, Send,
                 LastMsg, wl, wr, out, bcMsg, bcTodo, bcTmp, td, said,
                 activeAtSig, rt, W, wth,
                 part,
                 motd, closeTodo>>

\* The writer goroutine is inside WriteLine on c's transport.
Writing(c) == wr[c] # NoEntry

\* The goroutine who of c ("h" the handler, "w" the writer goroutine) is
\* inside WriteLine and past its two tests, using Conn.W; a line WriteLine
\* refuses never gets to Conn.W.
Using(c, who) == wth[c][who].pc \notin {"idle", "enter"}

\* The goroutine who of c executes its next statement of WriteString and
\* Flush on c.Conn.W, writing the line of e.  Nothing orders the statements
\* of the handler and those of the writer goroutine on the one bufio.Writer
\* (a data race): each reads b.n, b.err and b.buf as the other left them.
WriteStmt(c, who, e) ==
  LET r == WStmt(W[c], wth[c][who], Bytes(e), ConnClosed(c))
      f == Feed(out[c], part[c], r.sent)
  IN /\ W' = [W EXCEPT ![c] = r.b]
     /\ wth' = [wth EXCEPT ![c][who] = r.t]
     /\ out' = [out EXCEPT ![c] = f.out]
     /\ part' = [part EXCEPT ![c] = f.part]
     /\ proc' = IF r.panic THEN "panicked" ELSE proc

\* client.Conn.WriteLine(line) called by the handler in its loop: the two
\* tests of WriteLine.  The handler goes on at pc in, inside the call, or,
\* the line refused, at pc after.
Reply(c, line, in, after) ==
  IF WriteLineErr(line) = ""
  THEN /\ pc' = [pc EXCEPT ![c] = in]
       /\ wth' = [wth EXCEPT ![c].h = Begin]
  ELSE /\ pc' = [pc EXCEPT ![c] = after]
       /\ wth' = wth

\* The line the handler of c is writing, at "Pong" or "Cya".
ReplyLine(c) == Entry(IF pc[c] = "Pong" THEN sPONG ELSE sCYA, 0, 0)

\* handle: one statement of client.Conn.WriteLine("PONG") or ("CYA").  Its
\* error is dropped; after PONG the loop goes on, after CYA comes disconnect.
ReplyStmt(c) ==
  /\ proc = "running"
  /\ pc[c] \in {"Pong", "Cya"}
  /\ WriteStmt(c, "h", ReplyLine(c))
  /\ pc' = [pc EXCEPT ![c] = IF wth'[c].h.pc # "idle" THEN @
                              ELSE IF @ = "Cya" THEN "Disc1" ELSE "Active"]
  /\ UNCHANGED <<ln, sd, now, clients, ipCounts, totalMsg, ip, connNick, Send,
                 LastMsg, wl, wr, bcMsg, bcTodo, bcTmp, td, said, activeAtSig,
                 rt,
                 motd, closeTodo>>

\* handle: one statement of the WriteLine of a handshake line: its two
\* tests, and then the statements of WriteString and Flush (HelloRefuse,
\* HelloAck and MotdLine are each a run of these steps).
HelloStmt(c) ==
  /\ proc = "running"
  /\ pc[c] \in {"Refuse", "Ack", "Motd"}
  /\ IF wth[c].h.pc = "idle"
     THEN /\ wth' = [wth EXCEPT ![c].h =
                       IF WriteLineErr(HelloLine(c).line) = "" THEN Begin ELSE Idle]
          /\ UNCHANGED <<proc, W, out, part>>
     ELSE WriteStmt(c, "h", HelloLine(c))
  /\ IF wth'[c].h.pc = "idle" THEN HelloNext(c) ELSE UNCHANGED <<pc, motd>>
  /\ UNCHANGED <<ln, sd, now, clients, ipCounts, totalMsg, ip, connNick, Send,
                 LastMsg, wl, wr, bcMsg, bcTodo, bcTmp, td, said, activeAtSig,
                 rt, closeTodo>>

\* handle: one turn of the read loop, the peers sending at most quota MSG
\* lines in the run.  MSG is dropped when throttled, and otherwise stamps
\* LastMsg, makes the line to relay and calls broadcast; PING writes PONG; BYE
\* writes CYA and goes to disconnect; a read error goes to disconnect; any
\* other command is ignored.  The stamp is a second reading of the clock,
\* at the instant tested or at a later one of instants.
Line(c, raw, quota, instants) ==
  /\ proc = "running"
  /\ pc[c] = "Active"
  /\ \E r \in Reads(c, raw) :
     LET p == ParseCommand(r.line)
     IN IF r.err # ""
        THEN /\ pc' = [pc EXCEPT ![c] = "Disc1"]
             /\ UNCHANGED <<now, LastMsg, wth, bcMsg, bcTodo, said>>
        ELSE IF p.cmd = sMSG
        THEN /\ said < quota
             /\ said' = said + 1
             /\ IF Throttled(LastMsg[c])
                THEN UNCHANGED <<now, pc, LastMsg, wth, bcMsg, bcTodo>>
                ELSE /\ \E t \in {now} \cup {i \in instants : i > now} :
                          /\ now' = t
                          /\ LastMsg' = [LastMsg EXCEPT ![c] = t]
                     /\ bcMsg' = [bcMsg EXCEPT ![c] =
                                    Entry(sMSG \o sp \o connNick[c]
                                          \o <<":", " ">> \o p.arg, c, said + 1)]
                     /\ pc' = [pc EXCEPT ![c] = "BcastLock"]
                     /\ UNCHANGED <<wth, bcTodo>>
        ELSE IF p.cmd = sPING
        THEN /\ Pongs(out[c]) < MaxPings
             /\ Reply(c, sPONG, "Pong", "Active")
             /\ UNCHANGED <<now, LastMsg, bcMsg, bcTodo, said>>
        ELSE IF p.cmd = sBYE
        THEN /\ Reply(c, sCYA, "Cya", "Disc1")
             /\ UNCHANGED <<now, LastMsg, bcMsg, bcTodo, said>>
        ELSE UNCHANGED <<now, pc, LastMsg, wth, bcMsg, bcTodo, said>>
  /\ UNCHANGED <<proc, ln, sd, clients, ipCounts, totalMsg, ip, connNick,
                 Send, wl, wr, out, bcTmp, td, activeAtSig, rt, W, part,
                 motd, closeTodo>>

\* TrySend putting the line at the head of the queue.
TrySendFront(q, e) == IF Len(q) < SendCap THEN <<e>> \o q ELSE q

\* The select of broadcast on a channel holding q: the channel afterwards.
TrySend(q, e) == IF Len(q) < SendCap THEN Append(q, e) ELSE q

\* broadcast: s.mu.RLock() and the start of the range over s.clients, which
\* has the keys of the registry to visit.  A reader waits for no other
\* reader, and the sections under s.mu.Lock are single steps.
BcastEnter(c) ==
  /\ proc = "running"
  /\ pc[c] = "BcastLock"
  /\ CanRLock
  /\ bcTodo' = [bcTodo EXCEPT ![c] = DOMAIN clients]
  /\ pc' = [pc EXCEPT ![c] = "Bcast"]
  /\ UNCHANGED <<proc, ln, sd, now, clients, ipCounts, totalMsg, ip, connNick,
                 Send, LastMsg, wl, wr, out, bcMsg, bcTmp, td, said,
                 activeAtSig, rt, W, wth, part, motd, closeTodo>>

\* broadcast: one turn of the range over s.clients, at key n.  A send on a
\* closed channel panics, also inside a select with a default case.
BcastSend(c, n) ==
  /\ proc = "running"
  /\ pc[c] = "Bcast"
  /\ n \in bcTodo[c]
  /\ bcTodo' = [bcTodo EXCEPT ![c] = @ \ {n}]
  /\ IF SendClosed(clients[n])
     THEN proc' = "panicked" /\ Send' = Send
     ELSE /\ Send' = [Send EXCEPT ![clients[n]] = TrySend(@, bcMsg[c])]
          /\ proc' = proc
  /\ UNCHANGED <<ln, sd, now, clients, ipCounts, totalMsg, pc, ip, connNick,
                 LastMsg, wl, wr, out, bcMsg, bcTmp, td, said, activeAtSig, rt, W, wth,
                 part,
                 motd, closeTodo>>

\* broadcast: s.totalMsg++ reads the counter ...
BcastLoad(c) ==
  /\ proc = "running"
  /\ pc[c] = "Bcast"
  /\ bcTodo[c] = {}
  /\ bcTmp' = [bcTmp EXCEPT ![c] = totalMsg]
  /\ pc' = [pc EXCEPT ![c] = "BcastInc"]
  /\ UNCHANGED <<proc, ln, sd, now, clients, ipCounts, totalMsg, ip, connNick,
                 Send, LastMsg, wl, wr, out, bcMsg, bcTodo, td, said,
                 activeAtSig, rt, W, wth,
                 part,
                 motd, closeTodo>>

\* ... and stores it incremented; broadcast returns (s.mu.RUnlock) to the
\* loop, and its locals are gone.
BcastStore(c) ==
  /\ proc = "running"
  /\ pc[c] = "BcastInc"
  /\ totalMsg' = bcTmp[c] + 1
  /\ pc' = [pc EXCEPT ![c] = "Active"]
  /\ bcMsg' = [bcMsg EXCEPT ![c] = NoEntry]
  /\ bcTmp' = [bcTmp EXCEPT ![c] = 0]
  /\ UNCHANGED <<proc, ln, sd, now, clients, ipCounts, ip, connNick, Send,
                 LastMsg, wl, wr, out, bcTodo, td, said, activeAtSig, rt, W, wth,
                 part,
                 motd, closeTodo>>

\* WlRecv that stays in the range loop on a closed channel.
WlRecvNeverReturns(c) ==
  /\ proc = "running"
  /\ wl[c] = "run"
  /\ ~Writing(c)
  /\ Send[c] # <<>>
  /\ wr' = [wr EXCEPT ![c] = Head(Send[c])]
  /\ wth' = [wth EXCEPT ![c].w.pc = "enter"]
  /\ Send' = [Send EXCEPT ![c] = Tail(@)]
  /\ UNCHANGED <<proc, ln, sd, now, clients, ipCounts, totalMsg, pc, ip,
                 connNick, LastMsg, wl, out, bcMsg, bcTodo, bcTmp, td, said,
                 activeAtSig, rt, W, part,
                 motd, closeTodo>>

\* writeLoop: receive one line and call c.Conn.WriteLine(msg), or return
\* once the channel is closed and drained.
WlRecv(c) ==
  /\ proc = "running"
  /\ wl[c] = "run"
  /\ ~Writing(c)
  /\ IF Send[c] # <<>>
     THEN /\ wr' = [wr EXCEPT ![c] = Head(Send[c])]
          /\ wth' = [wth EXCEPT ![c].w.pc = "enter"]
          /\ Send' = [Send EXCEPT ![c] = Tail(@)]
          /\ wl' = wl
     ELSE /\ SendClosed(c)
          /\ wl' = [wl EXCEPT ![c] = "done"]
          /\ UNCHANGED <<wr, wth, Send>>
  /\ UNCHANGED <<proc, ln, sd, now, clients, ipCounts, totalMsg, pc, ip,
                 connNick, LastMsg, out, bcMsg, bcTodo, bcTmp, td, said,
                 activeAtSig, rt, W, part,
                 motd, closeTodo>>

\* writeLoop: c.Conn.WriteLine(msg) from its call to its return, the
\* handler not being inside WriteString or Flush meanwhile.  Its error is
\* dropped.
WlWrite(c) ==
  /\ proc = "running"
  /\ Writing(c)
  /\ wth[c].w.pc = "enter"
  /\ ~Using(c, "h")
  /\ Written(c, WriteLine(Side(c), ConnClosed(c), wr[c]))
  /\ wr' = [wr EXCEPT ![c] = NoEntry]
  /\ wth' = [wth EXCEPT ![c].w = Idle]
  /\ UNCHANGED <<proc, ln, sd, now, clients, ipCounts, totalMsg, pc, ip,
                 connNick, Send, LastMsg, wl, bcMsg, bcTodo, bcTmp, td, said,
                 activeAtSig, rt,
                 motd, closeTodo>>

\* writeLoop: one statement of c.Conn.WriteLine(msg): its two tests, and
\* then the statements of WriteString and Flush.  Its error is dropped.
WlStmt(c) ==
  /\ proc = "running"
  /\ Writing(c)
  /\ IF wth[c].w.pc = "enter"
     THEN /\ wth' = [wth EXCEPT ![c].w =
                       IF WriteLineErr(wr[c].line) = "" THEN Begin ELSE Idle]
          /\ UNCHANGED <<proc, W, out, part>>
     ELSE WriteStmt(c, "w", wr[c])
  /\ wr' = [wr EXCEPT ![c] = IF wth'[c].w.pc = "idle" THEN NoEntry ELSE @]
  /\ UNCHANGED <<ln, sd, now, clients, ipCounts, totalMsg, pc, ip, connNick,
                 Send, LastMsg, wl, bcMsg, bcTodo, bcTmp, td, said,
                 activeAtSig, rt,
                 motd, closeTodo>>

\* disconnect: c.Conn.Close().  No lock is held, and the channel is still
\* open when the call returns.
Disconnect1(c) ==
  /\ proc = "running"
  /\ pc[c] = "Disc1"
  /\ td' = [td EXCEPT ![c].conn = @ + 1]
  /\ pc' = [pc EXCEPT ![c] = "DiscSend"]
  /\ UNCHANGED <<proc, ln, sd, now, clients, ipCounts, totalMsg, ip, connNick,
                 Send, LastMsg, wl, wr, out, bcMsg, bcTodo, bcTmp, said,
                 activeAtSig, rt, W, wth, part, motd, closeTodo>>

\* disconnect: close(c.Send).  Closing a closed channel panics.
DisconnectSend(c) ==
  /\ proc = "running"
  /\ pc[c] = "DiscSend"
  /\ td' = [td EXCEPT ![c].chan = @ + 1]
  /\ IF SendClosed(c)
     THEN proc' = "panicked" /\ pc' = pc
     ELSE proc' = proc /\ pc' = [pc EXCEPT ![c] = "Disc2"]
  /\ UNCHANGED <<ln, sd, now, clients, ipCounts, totalMsg, ip, connNick, Send,
                 LastMsg, wl, wr, out, bcMsg, bcTodo, bcTmp, said, activeAtSig,
                 rt, W, wth, part, motd, closeTodo>>

\* Disconnect2 that leaves the count of the address as it is.
Disconnect2KeepsSlot(c) ==
  /\ proc = "running"
  /\ pc[c] = "Disc2"
  /\ CanLock
  /\ clients' = Del(clients, connNick[c])
  /\ td' = [td EXCEPT ![c].del = @ + 1, ![c].rel = @ + 1]
  /\ pc' = [pc EXCEPT ![c] = "Closed"]
  /\ UNCHANGED <<proc, ln, sd, now, ipCounts, totalMsg, ip, connNick, Send,
                 LastMsg, wl, wr, out, bcMsg, bcTodo, bcTmp, said, activeAtSig, rt, W, wth,
                 part,
                 motd, closeTodo>>

\* disconnect, second half, under s.mu.Lock: delete(s.clients, c.Conn.Nick);
\* s.ipCounts[c.IP]--.
Disconnect2(c) ==
  /\ proc = "running"
  /\ pc[c] = "Disc2"
  /\ CanLock
  /\ clients' = Del(clients, connNick[c])
  /\ ipCounts' = [ipCounts EXCEPT ![ip[c]] = @ - 1]
  /\ td' = [td EXCEPT ![c].del = @ + 1, ![c].rel = @ + 1]
  /\ pc' = [pc EXCEPT ![c] = "Closed"]
  /\ UNCHANGED <<proc, ln, sd, now, totalMsg, ip, connNick, Send, LastMsg, wl, wr,
                 out, bcMsg, bcTodo, bcTmp, said, activeAtSig, rt, W, wth,
                 part,
                 motd, closeTodo>>

\* The shutdown goroutine: a signal arrives; ln.Close().
Signal ==
  /\ proc = "running"
  /\ sd = "wait"
  /\ sd' = "closing"
  /\ ln' = "closed"
  /\ activeAtSig' = {c \in Conns : pc[c] \in ActivePcs}
  /\ UNCHANGED <<proc, now, clients, ipCounts, totalMsg, pc, ip, connNick, Send,
                 LastMsg, wl, wr, out, bcMsg, bcTodo, bcTmp, td, said, rt, W, wth,
                 part,
                 motd, closeTodo>>

\* The shutdown goroutine: s.mu.Lock() and the start of the range over
\* s.clients, which has the keys of the registry to visit.
CloseAllLock ==
  /\ proc = "running"
  /\ sd = "closing"
  /\ CanLock
  /\ sd' = "locked"
  /\ closeTodo' = DOMAIN clients
  /\ UNCHANGED <<proc, ln, now, clients, ipCounts, totalMsg, pc, ip, connNick,
                 Send, LastMsg, wl, wr, out, bcMsg, bcTodo, bcTmp, td, said,
                 activeAtSig, rt, W, wth, part, motd>>

\* CloseAll tearing the client down itself: it also closes its channel.
CloseAllAndChannels(n) ==
  /\ proc = "running"
  /\ sd = "locked"
  /\ n \in closeTodo
  /\ closeTodo' = closeTodo \ {n}
  /\ td' = [td EXCEPT ![clients[n]].conn = @ + 1, ![clients[n]].chan = @ + 1]
  /\ UNCHANGED <<proc, ln, sd, now, clients, ipCounts, totalMsg, pc, ip,
                 connNick, Send, LastMsg, wl, wr, out, bcMsg, bcTodo, bcTmp,
                 said, activeAtSig, rt, W, wth, part, motd>>

\* The shutdown goroutine, holding s.mu: one turn of the range over
\* s.clients, c.Conn.Close() for the client at key n.  The goroutines that
\* need no lock run between the turns.
CloseAll(n) ==
  /\ proc = "running"
  /\ sd = "locked"
  /\ n \in closeTodo
  /\ closeTodo' = closeTodo \ {n}
  /\ td' = [td EXCEPT ![clients[n]].conn = @ + 1]
  /\ UNCHANGED <<proc, ln, sd, now, clients, ipCounts, totalMsg, pc, ip,
                 connNick, Send, LastMsg, wl, wr, out, bcMsg, bcTodo, bcTmp,
                 said, activeAtSig, rt, W, wth, part, motd>>

\* The shutdown goroutine: the range is done; s.mu.Unlock().
CloseAllUnlock ==
  /\ proc = "running"
  /\ sd = "locked"
  /\ closeTodo = {}
  /\ sd' = "exiting"
  /\ UNCHANGED <<proc, ln, now, clients, ipCounts, totalMsg, pc, ip, connNick,
                 Send, LastMsg, wl, wr, out, bcMsg, bcTodo, bcTmp, td, said,
                 activeAtSig, rt, W, wth, part, motd, closeTodo>>

\* The shutdown goroutine: os.Exit(0).
Exit ==
  /\ proc = "running"
  /\ sd = "exiting"
  /\ proc' = "exited"
  /\ UNCHANGED <<ln, sd, now, clients, ipCounts, totalMsg, pc, ip, connNick,
                 Send, LastMsg, wl, wr, out, bcMsg, bcTodo, bcTmp, td, said,
                 activeAtSig, rt, W, wth,
                 part,
                 motd, closeTodo>>

\* start(): ln.Accept() fails on the closed listener, start returns, main
\* returns and the process ends.
MainReturn ==
  /\ proc = "running"
  /\ ln = "closed"
  /\ proc' = "exited"
  /\ UNCHANGED <<ln, sd, now, clients, ipCounts, totalMsg, pc, ip, connNick,
                 Send, LastMsg, wl, wr, out, bcMsg, bcTodo, bcTmp, td, said,
                 activeAtSig, rt, W, wth,
                 part,
                 motd, closeTodo>>

\* Time passes.
Tick(t) ==
  /\ proc = "running"
  /\ t > now
  /\ now' = t
  /\ UNCHANGED <<proc, ln, sd, clients, ipCounts, totalMsg, pc, ip, connNick,
                 Send, LastMsg, wl, wr, out, bcMsg, bcTodo, bcTmp, td, said,
                 activeAtSig, rt, W, wth,
                 part,
                 motd, closeTodo>>

\* The handlers and writers, the peers connecting from addrs and sending
\* first lines of hellos and then lines of lines, RandomSuffix reading a
\* number of rands, the clock advancing inside a handler to one of instants.
Serve(addrs, hellos, rands, lines, quota, instants) ==
  \/ \E c \in Conns, a \in addrs : Accept(c, a)
  \/ \E c \in Conns : Reserve(c)
  \/ \E c \in Conns, raw \in hellos, u \in rands : Hello(c, raw, u)
  \/ \E c \in Conns : HelloRefuse(c)
  \/ \E c \in Conns : HelloAck(c)
  \/ \E c \in Conns : MotdLine(c)
  \/ \E c \in Conns : Insert(c)
  \/ \E c \in Conns, raw \in lines : Line(c, raw, quota, instants)
  \/ \E c \in Conns : BcastEnter(c)
  \/ \E c \in Conns : \E n \in bcTodo[c] : BcastSend(c, n)
  \/ \E c \in Conns : BcastLoad(c)
  \/ \E c \in Conns : BcastStore(c)
  \/ \E c \in Conns : WlRecv(c)
  \/ \E c \in Conns : WlWrite(c)
  \/ \E c \in Conns : Disconnect1(c)
  \/ \E c \in Conns : DisconnectSend(c)
  \/ \E c \in Conns : Disconnect2(c)

\* SIGINT or SIGTERM and what follows.
Shutdown ==
  \/ Signal
  \/ CloseAllLock
  \/ \E n \in closeTodo : CloseAll(n)
  \/ CloseAllUnlock
  \/ Exit
  \/ MainReturn

\* The server from start to exit, in a run short enough for the clock to stay
\* within one rate-limit interval.
Next == Serve(Addrs, RawHello, RandReads, RawActive, MaxMsgs, {}) \/ Shutdown
Spec == Init /\ [][Next]_vars

\* The server while no signal arrives, with the clock running.
NextChat ==
  \/ Serve(Addrs, ChatHello, {65535}, ChatLines, MaxChat, Instants)
  \/ \E t \in Instants : Tick(t)
SpecChat == Init /\ [][NextChat]_vars

\* ------------------------------------------------------------------ claims

Lines(o) == [i \in 1..Len(o) |-> o[i].line]
Keys == DOMAIN clients

\* The handler has begun or finished disconnect.
TeardownPcs == {"Disc1", "DiscSend", "Disc2", "Closed"}

\* C1: the nickname a handshake settles on is not a key of the registry when
\* the client is inserted under it, so an insertion never overwrites an entry.
C1_InsertIsFresh ==
  [][\A c \in Conns :
       (pc[c] = "Insert" /\ pc'[c] = "Active") => ~Has(clients, connNick[c])]_vars

\* C2: a nickname is a key of the registry exactly when a handler that has not
\* finished teardown owns the client stored under it: every key names a client
\* of that nickname whose handler is Active or still tearing down, and every
\* Active client is stored under its own nickname.
C2_RegistryMatchesHandlers ==
  /\ \A n \in Keys :
       /\ connNick[clients[n]] = n
       /\ pc[clients[n]] \in ActivePcs \cup {"Disc1", "DiscSend", "Disc2"}
  /\ \A c \in Conns :
       pc[c] \in ActivePcs => Has(clients, connNick[c]) /\ clients[connNick[c]] = c

\* C3: the count of every address stays between 0 and max_conns_per_ip, and a
\* handler releases its slot exactly once, and only if it reserved one.
C3_SlotCountInRange ==
  /\ \A a \in Addrs : ipCounts[a] >= 0 /\ ipCounts[a] <= MaxConnsPerIP
  /\ \A c \in Conns :
       /\ td[c].rel <= 1
       /\ pc[c] = "Closed" => td[c].rel = 1
       /\ pc[c] \in {"Idle", "Connecting", "Rejected"} => td[c].rel = 0

\* C3's case: an address was at the limit, a connection from it was refused,
\* and the slot has been released again.
C3_Witness ==
  \E c, d \in Conns :
    /\ pc[c] = "Closed" /\ pc[d] = "Rejected" /\ ip[c] = ip[d]
    /\ ipCounts[ip[c]] = 0

\* C4: a turn of broadcast appends the message to the queue of the client it
\* visits when that queue is not full, leaves a full queue as it is, and goes
\* on (broadcast completes).
C4_BroadcastDelivers ==
  [][\A c \in Conns : \A n \in bcTodo[c] :
       BcastSend(c, n) =>
         /\ proc' = "running"
         /\ Send'[clients[n]] =
              IF Len(Send[clients[n]]) < SendCap
              THEN Append(Send[clients[n]], bcMsg[c])
              ELSE Send[clients[n]]]_vars

\* C5: for every client the channel is closed, the registry entry removed and
\* the slot released at most once, and exactly once by the time its handler is
\* Closed, when the client is out of the registry; the transport may be closed
\* a second time.
C5_TeardownOnce ==
  \A c \in Conns :
    /\ td[c].chan <= 1 /\ td[c].del <= 1 /\ td[c].rel <= 1
    /\ td[c].conn <= 2
    /\ pc[c] = "Closed" =>
         /\ td[c].chan = 1 /\ td[c].del = 1 /\ td[c].rel = 1
         /\ td[c].conn >= 1
         /\ c \notin Registered

\* C5's case: the shutdown goroutine closed the transport of a client whose
\* handler then ran its teardown, closing it a second time.
C5_Witness ==
  \E c \in Conns : pc[c] = "Closed" /\ td[c].conn = 2 /\ sd # "wait"

\* C6: when the process has exited, every handler that was Active at the signal
\* is Closed.
C6_ExitAfterTeardown ==
  proc = "exited" => \A c \in activeAtSig : pc[c] = "Closed"

\* The entries of o that relay a MSG of connection s.
RECURSIVE From(_, _)
From(o, s) ==
  IF o = <<>> THEN <<>>
  ELSE (IF Head(o).src = s THEN <<Head(o)>> ELSE <<>>) \o From(Tail(o), s)

\* The lines a recipient was sent: written, being written, and queued.
Sent(r) ==
  out[r]
  \o (IF Writing(r) /\ wth[r].w.pc \in {"enter", "wsErr", "copy", "incLoad",
                                         "incStore", "flErr", "flZero",
                                         "write"}
      THEN <<wr[r]>> ELSE <<>>)
  \o Send[r]

Increasing(o) == \A i, j \in 1..Len(o) : i < j => o[i].seq < o[j].seq

\* C7: at every recipient, the messages of one sender are written to the
\* transport, and wait in the queue, in the order in which they were accepted.
C7_SenderOrder ==
  \A r, s \in Conns : Increasing(From(Sent(r), s))

\* C7's case: a recipient has been sent two messages of one sender.
C7_Witness ==
  \E r, s \in Conns : Len(From(Sent(r), s)) = 2 /\ Len(From(out[r], s)) = 2

\* The MSG line of the model's peers and the text it carries.
MsgRaw == sMSG \o sp \o sp \o tHi \o sp \o cr \o nl
Relayed(c) == sMSG \o sp \o connNick[c] \o <<":", " ">> \o tHi

\* What a MSG line does to the handler of c: dropped, nothing changes;
\* accepted, LastMsg is stamped with the clock as it is read then and the
\* line is handed to broadcast.
MsgEffect(c, dropped) ==
  IF dropped
  THEN UNCHANGED <<Send, clients, totalMsg, LastMsg, pc, out>>
  ELSE /\ LastMsg'[c] = now' /\ now' >= now
       /\ pc'[c] = "BcastLock"
       /\ bcMsg'[c].line = Relayed(c)

\* broadcast, called with a line, sets out to visit every key of the
\* registry with that line.
Broadcasts(c) ==
  (pc[c] = "BcastLock" /\ pc'[c] # pc[c]) =>
    pc'[c] = "Bcast" /\ bcTodo'[c] = Keys /\ bcMsg'[c] = bcMsg[c]

\* C8 as stated: a MSG is dropped when less than 1/max_msgs_per_sec seconds
\* have passed since the last accepted one, and accepted otherwise.
C8_DropsWithinExactInterval ==
  [][\A c \in Conns :
       /\ Line(c, MsgRaw, MaxChat, Instants) =>
            MsgEffect(c, /\ LastMsg[c] # ZeroTime
                         /\ (now - LastMsg[c]) * MaxMsgsPerSec < Second)
       /\ Broadcasts(c)]_vars

\* C8 amended: a MSG is dropped when fewer than floor(10^9 / max_msgs_per_sec)
\* nanoseconds have passed since the last accepted one, and accepted otherwise
\* (the first MSG of a client included).
C8_DropsWithinWholeNanoseconds ==
  [][\A c \in Conns :
       /\ Line(c, MsgRaw, MaxChat, Instants) =>
            MsgEffect(c, /\ LastMsg[c] # ZeroTime
                         /\ now - LastMsg[c] < 1000000000 \div MaxMsgsPerSec)
       /\ Broadcasts(c)]_vars

\* C8's case: a client had a second MSG accepted exactly the interval after its
\* first (one sent a nanosecond earlier is dropped and leaves no stamp).
C8_Witness ==
  \E c \in Conns :
    /\ LastMsg[c] = Interval /\ said = 2
    /\ Len(From(Sent(c), c)) = 2
    /\ \A d \in Conns \ {c} : LastMsg[d] = ZeroTime

\* The nickname policy: 3 to 20 characters, each an ASCII letter, a digit or
\* an underscore.
NickPolicy(n) ==
  /\ Len(n) \in 3..20
  /\ \A i \in 1..Len(n) : n[i] \in Lower \cup Upper \cup Digit \cup {"_"}

\* The peer sent a first line (the stream did not end, or stay silent past
\* the read deadline, before a newline), and it is not HELLO with a nickname
\* meeting the policy.
BadHello(raw) ==
  /\ raw # <<>>
  /\ ~(/\ ReadLine(raw).err = ""
       /\ ParseCommand(ReadLine(raw).line).cmd = sHELLO
       /\ NickPolicy(ParseCommand(ReadLine(raw).line).arg))

\* A first line that ReadLine returns: no longer than max_msg_size with its
\* newline, and without a carriage return before its end.
ReadHello(raw) == raw # <<>> /\ ReadLine(raw).err = ""

\* What holds of every connection answered ERROR 100, and of every
\* connection in teardown that was given no nickname: it was sent nothing
\* else, is not registered, and has its slot released when Closed.
RejectedStaysOut ==
  \A c \in Conns :
    /\ (out[c] # <<>> /\ out[c][1].line = sERROR100) =>
         /\ Lines(out[c]) = <<sERROR100>>
         /\ pc[c] \in TeardownPcs
         /\ connNick[c] = <<>>
    /\ (pc[c] \in TeardownPcs /\ connNick[c] = <<>>) =>
         /\ Lines(out[c]) \in {<<>>, <<sERROR100>>}
         /\ c \notin Registered
         /\ (pc[c] = "Closed" => td[c].rel = 1 /\ ipCounts[ip[c]] >= 0)

\* C9 as stated: a first line that is not HELLO with a valid nickname is
\* answered with exactly one ERROR 100 line and sends the handler to
\* teardown; such a connection is sent nothing else, is never registered,
\* and has its slot released when Closed.
C9_BadHelloRejected ==
  /\ [][\A c \in Conns :
          /\ \A raw \in RawHello : \A u \in RandReads :
               (/\ pc[c] = "AwaitHello" /\ pc'[c] # pc[c]
                /\ BadHello(raw) /\ Hello(c, raw, u)) =>
                  pc'[c] = "Refuse"
          /\ (pc[c] = "Refuse" /\ pc'[c] # pc[c]) =>
               Lines(out'[c]) = <<sERROR100>> /\ pc'[c] = "Disc1"]_vars
  /\ []RejectedStaysOut

\* C9 amended: a first line that ReadLine returns and that is not HELLO with
\* a valid nickname is answered with exactly one ERROR 100 line and sends
\* the handler to teardown; a first line that ReadLine does not return (too
\* long, or with a carriage return inside) sends the handler to teardown
\* with nothing written; either way the connection is sent nothing else, is
\* never registered, and has its slot released when Closed.
C9_ReadBadHelloRejected ==
  /\ [][\A c \in Conns :
          /\ \A raw \in RawHello : \A u \in RandReads :
               (/\ pc[c] = "AwaitHello" /\ pc'[c] # pc[c]
                /\ BadHello(raw) /\ Hello(c, raw, u)) =>
                  /\ pc'[c] = IF ReadHello(raw) THEN "Refuse" ELSE "Disc1"
                  /\ out'[c] = <<>> /\ connNick'[c] = <<>>
          /\ (pc[c] = "Refuse" /\ pc'[c] # pc[c]) =>
               Lines(out'[c]) = <<sERROR100>> /\ pc'[c] = "Disc1"]_vars
  /\ []RejectedStaysOut

\* C9's case: one connection was answered ERROR 100 and is Closed, and
\* another, whose first line ReadLine did not return, is Closed with nothing
\* written to it.
C9_Witness ==
  \E c, d \in Conns :
    /\ pc[c] = "Closed" /\ Lines(out[c]) = <<sERROR100>>
    /\ pc[d] = "Closed" /\ out[d] = <<>> /\ connNick[d] = <<>> /\ td[d].rel = 1

Cyas(o) == Cardinality({i \in 1..Len(o) : o[i].line = sCYA})

\* C10: a BYE read from an open transport is answered with one CYA line on
\* that transport and sends the handler to teardown; when the handler becomes
\* Closed its nickname is not a key of the registry; and a handshake asking
\* for a nickname that is not a key is given that nickname.
C10_ByeFreesNick ==
  /\ [][\A c \in Conns :
          /\ (~ConnClosed(c) /\ Line(c, sBYE \o nl, MaxMsgs, {})) =>
               pc'[c] = "Cya"
          /\ (pc[c] = "Cya" /\ pc'[c] # "Cya") =>
               pc'[c] = "Disc1" /\ Cyas(out'[c]) = 1
          /\ (pc[c] = "Disc2" /\ pc'[c] = "Closed") => ~Has(clients', connNick[c])
          /\ \A u \in RandReads :
               (/\ pc[c] = "AwaitHello" /\ pc'[c] # pc[c] /\ ~Has(clients, nBob)
                /\ Hello(c, sHELLO \o sp \o nBob \o nl, u)) =>
                  connNick'[c] = nBob /\ pc'[c] = "Ack"
          /\ (pc[c] = "Ack" /\ pc'[c] # pc[c]) =>
               Lines(out'[c]) = <<sHELLO \o sp \o connNick[c]>>]_vars
  /\ [](\A c \in Conns :
          Cyas(out[c]) > 0 =>
            Cyas(out[c]) = 1 /\ pc[c] \in TeardownPcs \cup {"Cya"})

\* C10's case: a client said BYE, got CYA and is Closed, and a connection made
\* from its address afterwards (the address allows one at a time) holds its
\* nickname.
C10_Witness ==
  \E c, d \in Conns :
    /\ c # d /\ ip[c] = ip[d]
    /\ pc[c] = "Closed" /\ Cyas(out[c]) = 1
    /\ pc[d] = "Active" /\ connNick[d] = connNick[c] /\ connNick[c] = nBob

\* C11: every return of broadcast leaves the total-message counter one higher
\* than it was, whatever other handlers are inside broadcast, and the counter
\* never decreases.
C11_CounterCountsBroadcasts ==
  [][/\ \A c \in Conns :
          (pc[c] = "BcastInc" /\ pc'[c] = "Active") => totalMsg' = totalMsg + 1
     /\ totalMsg' >= totalMsg]_vars

\* ------------------------------------------------- the transport by itself

\* How far past MaxMsgSize the lines handed to the transport go.
RtOver == 2

\* k letters.
Fill(k) == [i \in 1..k |-> "x"]

\* Lines handed to WriteLine: every length up to RtOver past the limit, and
\* short and over-long lines with a carriage return or a newline at the
\* start, inside or at the end.
RtInputs ==
  {Fill(k) : k \in 0..(MaxMsgSize + RtOver)}
  \cup {Fill(i) \o <<ch>> \o Fill(j) :
          i \in {0, 2}, j \in {0, 2, MaxMsgSize + RtOver}, ch \in {"\r", "\n"}}

\* The bytes c.R.ReadString('\n') returns from a stream that holds s: up to
\* and including the first newline.
FirstLine(s) == SubSeq(s, 1, IndexByte(s, "\n"))

InitLine ==
  /\ Start
  /\ rt \in {[NoRt EXCEPT !.st = "in", !.x = x] : x \in RtInputs}

\* c.WriteLine(x): the error it returns and the bytes it puts on the wire.
RtWrite ==
  /\ rt.st = "in"
  /\ rt' = [rt EXCEPT !.st = "written",
                      !.werr = WriteLineErr(rt.x),
                      !.wire = IF WriteLineErr(rt.x) = "" THEN rt.x \o nl
                               ELSE <<>>]
  /\ UNCHANGED <<proc, ln, sd, now, clients, ipCounts, totalMsg, pc, ip,
                 connNick, Send, LastMsg, wl, wr, out, bcMsg, bcTodo, bcTmp,
                 td, said, activeAtSig, W, wth, part,
                 motd, closeTodo>>

\* c.ReadLine() at the other end: of the bytes WriteLine wrote, or, when
\* WriteLine refused the line, of the line sent as it is.
RtRead ==
  /\ rt.st = "written"
  /\ LET r == ReadLine(FirstLine(IF rt.werr = "" THEN rt.wire ELSE rt.x \o nl))
     IN rt' = [rt EXCEPT !.st = "read", !.rerr = r.err, !.back = r.line]
  /\ UNCHANGED <<proc, ln, sd, now, clients, ipCounts, totalMsg, pc, ip,
                 connNick, Send, LastMsg, wl, wr, out, bcMsg, bcTodo, bcTmp,
                 td, said, activeAtSig, W, wth, part,
                 motd, closeTodo>>

NextLine == RtWrite \/ RtRead
SpecLine == InitLine /\ [][NextLine]_vars

\* C12: a line without newline or carriage return and of at most max_msg_size
\* bytes is written and read back as itself; any other line makes WriteLine
\* and ReadLine fail with the same error.
C12_RoundTrip ==
  rt.st = "read" =>
    IF ~ContainsAny(rt.x, {"\n", "\r"}) /\ Len(rt.x) <= MaxMsgSize
    THEN rt.werr = "" /\ rt.rerr = "" /\ rt.back = rt.x
    ELSE rt.werr # "" /\ rt.rerr = rt.werr

\* The nickname a first line asks for.
Asked(raw) == ParseCommand(ReadLine(raw).line).arg

\* A first line, read without a transport error, that is HELLO with a
\* nickname meeting the policy.
GoodHello(raw) ==
  /\ ReadLine(raw).err = ""
  /\ ParseCommand(ReadLine(raw).line).cmd = sHELLO
  /\ NickPolicy(Asked(raw))

\* C13: a handshake asking for a valid nickname n that is not a key of the
\* registry settles on n itself and answers HELLO n first; the nickname stays
\* as settled, and the insertion stores the client under it.
C13_FreeNickKept ==
  [][\A c \in Conns :
       /\ \A raw \in RawHello : \A u \in RandReads :
            (/\ pc[c] = "AwaitHello" /\ pc'[c] # pc[c]
             /\ GoodHello(raw) /\ Asked(raw) \notin Keys
             /\ Hello(c, raw, u)) =>
               /\ connNick'[c] = Asked(raw)
               /\ pc'[c] = "Ack"
       /\ (pc[c] = "Ack" /\ pc'[c] # pc[c]) =>
            /\ Lines(out'[c]) = <<sHELLO \o sp \o connNick[c]>>
            /\ pc'[c] \in {"Motd", "Insert"}
       /\ connNick[c] # <<>> => connNick'[c] = connNick[c]
       /\ (pc[c] = "Insert" /\ pc'[c] = "Active") =>
            Has(clients', connNick[c]) /\ clients'[connNick[c]] = c]_vars

\* C13's case: two clients are registered, each under the nickname it asked
\* for, one of them the nickname a suffix would have made of the other.
C13_Witness ==
  \E c, d \in Conns :
    /\ pc[c] = "Active" /\ pc[d] = "Active"
    /\ connNick[c] = nBob /\ connNick[d] = nBob \o <<"_","0","0","0","0">>
    /\ Has(clients, connNick[c]) /\ clients[connNick[c]] = c
    /\ Has(clients, connNick[d]) /\ clients[connNick[d]] = d
    /\ out[d][1].line = sHELLO \o sp \o connNick[d]

\* C14: a connection whose address is already at max_conns_per_ip is closed
\* at once and goes no further: nothing is written to it or read from it, the
\* count of its address and the registry stay as they are, and it gets no
\* writer, no queue entry, no nickname and no registry entry.
C14_RejectedUntouched ==
  /\ [][\A c \in Conns :
          /\ (/\ pc[c] = "Connecting" /\ pc'[c] # "Connecting"
              /\ ipCounts[ip[c]] >= MaxConnsPerIP) =>
                /\ pc'[c] = "Rejected"
                /\ td'[c].conn = 1
                /\ UNCHANGED <<ipCounts, clients, out, wl, wr, Send, connNick>>
          /\ pc[c] = "Rejected" =>
                /\ pc'[c] = "Rejected"
                /\ out'[c] = out[c] /\ wl'[c] = wl[c] /\ td'[c] = td[c]]_vars
  /\ [](\A c \in Conns :
          pc[c] = "Rejected" =>
            /\ out[c] = <<>> /\ Send[c] = <<>> /\ ~Writing(c)
            /\ wl[c] = "none"
            /\ connNick[c] = <<>> /\ c \notin Registered
            /\ td[c] = [NoTeardown EXCEPT !.conn = 1])

\* C14's case: a connection was refused while the client holding the one slot
\* of its address is registered, and the address still counts that client.
C14_Witness ==
  \E c, d \in Conns :
    /\ pc[d] = "Rejected" /\ ip[c] = ip[d]
    /\ pc[c] = "Active" /\ c \in Registered
    /\ ipCounts[ip[c]] = MaxConnsPerIP

\* ------------------------------------------- the server under fair scheduling

\* A text that fits a MSG line of the peer but not the line that relays it:
\* "MSG " and the text and the newline stay within MaxMsgSize, "MSG bob: " and
\* the text do not.
LongText == Fill(MaxMsgSize - 6)

\* First lines: a good one, one with a nickname too short, and a stream that
\* ends before a line.
WireHello == {sHELLO \o sp \o nBob \o nl, sHELLO \o sp \o <<"a","l">> \o nl, <<>>}

\* Lines of a registered peer.  A command the server ignores leaves the
\* state as it is, so a peer that goes on sending such lines shows as
\* stuttering.
WireLines ==
  { sMSG \o sp \o tHi \o nl, sMSG \o sp \o LongText \o nl,
    sBYE \o nl, sNOPE \o nl, <<>> }

\* The server with peers from one address, so that one client at a time is
\* registered, the writes to Conn.W taken statement by statement.
NextWire ==
  \/ Serve({IPs[1]}, WireHello, {65535}, WireLines, MaxMsgs, {})
  \/ \E c \in Conns : HelloStmt(c)
  \/ \E c \in Conns : ReplyStmt(c)
  \/ \E c \in Conns : WlStmt(c)

\* The steps of the handler goroutine of c that wait for nothing but the
\* scheduler and s.mu.
HandlerStep(c) ==
  \/ Reserve(c)
  \/ HelloStmt(c)
  \/ Insert(c)
  \/ BcastEnter(c)
  \/ \E n \in bcTodo[c] : BcastSend(c, n)
  \/ BcastLoad(c)
  \/ BcastStore(c)
  \/ ReplyStmt(c)
  \/ Disconnect1(c)
  \/ DisconnectSend(c)
  \/ Disconnect2(c)

\* The steps of the writer goroutine of c, statement by statement (WlWrite
\* is a run of WlStmt steps).
WriterStep(c) == WlRecv(c) \/ WlStmt(c)

\* Every goroutine that can run does run.  Nothing is assumed of the accept
\* loop and of the reads, which wait for the peers: a peer that keeps sending
\* lines the server ignores keeps ReadLine from running into its deadline.
SpecWire ==
  /\ Init /\ [][NextWire]_vars
  /\ \A c \in Conns : WF_vars(HandlerStep(c)) /\ WF_vars(WriterStep(c))

\* The WriteLine the writer goroutine of c is in returns an error, whatever
\* else happens: the line is refused, Conn.W holds an error where WriteString
\* or Flush tests for it, or b.wr.Write has failed or written short.
Failing(c) ==
  /\ Writing(c)
  /\ \/ wth[c].w.pc = "enter" /\ WriteLineErr(wr[c].line) # ""
     \/ wth[c].w.pc \in {"wsErr", "flErr"} /\ W[c].err # ""
     \/ wth[c].w.pc \in {"shiftTest", "shift", "decLoad", "decStore", "setErr"}

\* ------------------------------------------ the handler and the writer on Conn.W

\* Lines of a registered peer that make the handler write to the transport
\* itself, next to those of WireLines.
RaceLines == WireLines \cup {sPING \o nl}

\* The server with peers that say PING and BYE while lines are relayed to
\* them, the writes to Conn.W taken statement by statement.  The handler and
\* the writer goroutine that meet on a Conn.W are those of one connection,
\* so the peers come from one address and one client at a time is
\* registered; what connections do to one another is in Spec.
NextRace ==
  \/ Serve({IPs[1]}, WireHello, {65535}, RaceLines, MaxMsgs, {})
  \/ \E c \in Conns : HelloStmt(c)
  \/ \E c \in Conns : ReplyStmt(c)
  \/ \E c \in Conns : WlStmt(c)
SpecRace == Init /\ [][NextRace]_vars

\* C15: when a WriteLine of a client's writer fails, the client's handler
\* gets to Closed (or the process ends) without reading anything more.
C15_WriteFailureCloses ==
  \A c \in Conns : Failing(c) ~> (pc[c] = "Closed" \/ proc # "running")

\* The connections that reserved a slot (handle, under s.mu.Lock).
Reserved == {c \in Conns : pc[c] \notin {"Idle", "Connecting", "Rejected"}}

\* The connections from address a that hold a slot: reserved, and not yet
\* released by the locked section that ends disconnect.  The transport of
\* such a connection may be closed already.
Holding(a) == {c \in Reserved : ip[c] = a /\ pc[c] # "Closed"}

\* C16 as stated: the count of every address is the number of connections
\* from it that reserved a slot and are not yet closed.
C16_CountMatchesOpenConnections ==
  \A a \in Addrs :
    ipCounts[a] = Cardinality({c \in Reserved : ip[c] = a /\ ~ConnClosed(c)})

\* C16 amended: the count of every address is the number of connections from
\* it that reserved a slot and whose handler has not yet released it, which
\* it does as the last step of its teardown.
C16_CountMatchesHeldSlots ==
  \A a \in Addrs : ipCounts[a] = Cardinality(Holding(a))

\* C16's case: an address has had a connection that is Closed and now has
\* another, registered, whose transport the shutdown goroutine has closed
\* and whose handler has not noticed yet; the address counts the second only.
C16_Witness ==
  \E c, d \in Conns :
    /\ ip[c] = ip[d]
    /\ pc[c] = "Closed" /\ td[c].rel = 1
    /\ pc[d] = "Active" /\ ConnClosed(d) /\ sd = "exiting"
    /\ ipCounts[ip[d]] = 1 /\ Holding(ip[d]) = {d}

\* C17: while a handler is inside broadcast, every client it has yet to visit
\* through the registry has an open queue, so no send is attempted on a
\* closed one.
C17_BroadcastSeesOpenQueues ==
  \A c \in Conns :
    pc[c] = "Bcast" => \A n \in bcTodo[c] : ~SendClosed(clients[n])

\* C18: the handler writes a direct reply (PONG to PING, CYA to BYE) to a
\* client's transport only while the client's writer is not writing a line
\* to it.
C18_OneWriterAtATime ==
  \A c \in Conns : ~(Using(c, "h") /\ Using(c, "w"))

\* C19: once a handler is Closed, its client's writer returns (or the
\* process ends), having taken every queued line for writing; no line is
\* added to a closed queue; and a writer that has returned stays so.
C19_WriterEnds ==
  /\ \A c \in Conns : (pc[c] = "Closed") ~> (wl[c] = "done" \/ proc # "running")
  /\ [][\A c \in Conns :
          /\ SendClosed(c) => Len(Send'[c]) <= Len(Send[c])
          /\ wl[c] = "done" => wl'[c] = "done"]_vars
  /\ [](\A c \in Conns :
          wl[c] = "done" => SendClosed(c) /\ Send[c] = <<>> /\ ~Writing(c))

\* C19's case: a connection refused at the handshake, whose writer was
\* started before the first read, is Closed and its writer has returned,
\* while a registered client that said BYE with its own message still queued
\* is Closed too, its writer having written that message and returned.
C19_Witness ==
  \E c, d \in Conns :
    /\ pc[c] = "Closed" /\ connNick[c] = <<>> /\ wl[c] = "done"
    /\ pc[d] = "Closed" /\ connNick[d] = nBob /\ wl[d] = "done"
    /\ \E i \in 1..Len(out[d]) : out[d][i].src = d

\* The handler of c has not inserted its client into the registry.
BeforeInsert(c) ==
  pc[c] \in {"Idle", "Connecting", "Rejected", "AwaitHello", "Refuse", "Ack",
            "Motd", "Insert"}

\* The entries of o that relay a MSG.
Relays(o) == {i \in 1..Len(o) : o[i].src # 0}

\* C20: until a client is inserted into the registry its queue is empty, its
\* writer has nothing to write and its transport has received no relayed
\* MSG; and a transport that has received a relayed MSG received the HELLO
\* acknowledgement with the final nickname and the MOTD line first, and
\* receives no HELLO or MOTD line after it.
C20_HandshakeBeforeRelay ==
  \A c \in Conns :
    /\ BeforeInsert(c) =>
         Send[c] = <<>> /\ ~Writing(c) /\ Relays(out[c]) = {}
    /\ Relays(out[c]) # {} =>
         /\ Len(out[c]) >= 3
         /\ out[c][1].line = sHELLO \o sp \o connNick[c]
         /\ out[c][2].line = sMOTD \o sp \o <<"y", "o">>
         /\ \A i \in 3..Len(out[c]) :
              /\ ~HasPrefix(out[c][i].line, sHELLO)
              /\ ~HasPrefix(out[c][i].line, sMOTD)

\* C20's case: a client's handler is inside broadcast and has visited every
\* key of the registry, its message waiting in its own queue, while another
\* connection is between its HELLO acknowledgement and its MOTD line and has
\* been sent nothing else.
C20_Witness ==
  \E c, d \in Conns :
    /\ pc[c] = "Bcast" /\ bcTodo[c] = {} /\ Send[c] = <<bcMsg[c]>>
    /\ Lines(out[c]) = <<sHELLO \o sp \o connNick[c], sMOTD \o sp \o <<"y", "o">>>>
    /\ pc[d] = "Motd" /\ Lines(out[d]) = <<sHELLO \o sp \o connNick[d]>>
    /\ Send[d] = <<>> /\ ~Writing(d)

====
